---- MODULE Spec2Model ----
(***************************************************************************)
(* Model of the message formatter of the Agentforce conversation viewer:   *)
(* renderMessageContent, its HTML detector (HTML_PATTERN), the inline      *)
(* formatter (inlineFormat) and the line loop of markdownToHtml.           *)
(*                                                                         *)
(* A JavaScript string is a sequence of one-character strings, so that     *)
(* every regular expression of the source is computed character by         *)
(* character.                                                              *)
(***************************************************************************)
EXTENDS Integers, Sequences, FiniteSets, TLC

VARIABLES
    text,       \* the argument of renderMessageContent (NULL when absent)
    pc,         \* "call" | "loop" | "done": position inside the call
    lines,      \* markdownToHtml: const lines = text.split('\n')
    i,          \* markdownToHtml: loop index (1-based here)
    out,        \* markdownToHtml: const out = []
    listType,   \* markdownToHtml: let listType = null  ("null" | "ul" | "ol")
    listItems,  \* markdownToHtml: const listItems = []
    result,     \* the value returned by the last finished call
    ran,        \* history: the components the current call has run
    itemSrc,    \* history: for every element of listItems, the kind of line it came from
    outSrc,     \* history: for every element of out, the itemSrc of the list it closed
    calls,      \* history: number of calls started so far
    prev,       \* history: input and result of the previous call
    lastIndex,  \* the lastIndex property of each module-level pattern
    memo,       \* history: input and result of every finished call
    outAt,      \* history: for every element of out, the indices of the lines it came from
    itemAt,     \* history: for every element of listItems, the index of its line
    allItems,   \* history: every item pushed to listItems during the call, in order
    home,       \* the AgentSessionsHome component: its fields, its calls in flight, histories
    gpt         \* the AgentGPT component: its fields, its calls in flight, histories

vars ==
    <<text, pc, lines, i, out, listType, listItems, result, ran, itemSrc, outSrc, calls, prev,
      lastIndex, memo, outAt, itemAt, allItems, home, gpt>>

components == <<home, gpt>>
formatter ==
    <<text, pc, lines, i, out, listType, listItems, result, ran, itemSrc, outSrc, calls, prev,
      lastIndex, memo, outAt, itemAt, allItems>>

\* values that are no string: an absent argument, a failed match, no call yet
NULL == <<"NULL">>
NoMatch == <<"NoMatch">>
NoResult == <<"NoResult">>
NoPrev == [text |-> NoResult, result |-> NoResult]
NoGroups == [ok |-> FALSE]

(***************************************************************************)
(* Bounds of the model.                                                    *)
(***************************************************************************)
MaxLines == 3
MaxLen == 4
MaxCalls == 2
MaxTokens == 4
MaxItems == 2
MaxFmt == 5
MaxHashes == 7
MaxLoads == 4
MaxFilterChanges == 1
ServerTotal == 11

(***************************************************************************)
(* Character classes of the regular expressions.                           *)
(***************************************************************************)
\* \s of a JavaScript regular expression (the members the model's inputs use)
WhiteSpace == {" ", "\t", "\n", "\r"}
\* the characters '.' of a regular expression does not match
LineTerminators == {"\n", "\r"}
\* \d
Digits == {"0", "1", "2", "3", "4", "5", "6", "7", "8", "9"}
\* [ \t]
BlankChars == {" ", "\t"}
\* [-*+]
\* a marker class that also takes the heading character
UlMarkers_WithHash == {"-", "*", "+", "#"}
UlMarkers == {"-", "*", "+"}
\* [.)]
OlDelims == {".", ")"}
\* a class that only takes the closing bracket
TagEnd_OnlyClose == {">"}
\* [\s\/>]
TagEnd == WhiteSpace \cup {"/", ">"}

\* first position q >= p with s[q] \notin C, or Len(s) + 1: the end of a greedy C* from p
RECURSIVE SkipWhile(_, _, _)
SkipWhile(s, p, C) ==
    IF p <= Len(s) /\ s[p] \in C THEN SkipWhile(s, p + 1, C) ELSE p

\* first position q >= p with s[q] \in C, or Len(s) + 1: the end of a greedy [^C]* from p
RECURSIVE SkipUntil(_, _, _)
SkipUntil(s, p, C) ==
    IF p <= Len(s) /\ s[p] \notin C THEN SkipUntil(s, p + 1, C) ELSE p

\* s.substring(p - 1, q - 1): the characters at positions p .. q - 1
Sub(s, p, q) == SubSeq(s, p, q - 1)

\* does the literal w occur in s at position p
At(s, p, w) ==
    /\ p >= 1
    /\ p + Len(w) - 1 <= Len(s)
    /\ \A k \in 1..Len(w) : s[p + k - 1] = w[k]

\* the i flag: ASCII letters compared without case
Lower(c) ==
    CASE c = "P" -> "p" [] c = "B" -> "b" [] c = "R" -> "r" [] c = "H" -> "h"
      [] c = "I" -> "i" [] c = "A" -> "a" [] c = "U" -> "u" [] c = "L" -> "l"
      [] c = "O" -> "o" [] c = "E" -> "e" [] c = "M" -> "m" [] c = "D" -> "d"
      [] c = "V" -> "v" [] c = "S" -> "s" [] c = "T" -> "t" [] c = "N" -> "n"
      [] c = "G" -> "g" [] c = "K" -> "k" [] c = "Q" -> "q" [] c = "C" -> "c"
      [] OTHER -> c

AtNoCase(s, p, w) ==
    /\ p >= 1
    /\ p + Len(w) - 1 <= Len(s)
    /\ \A k \in 1..Len(w) : Lower(s[p + k - 1]) = w[k]

(***************************************************************************)
(* HTML_PATTERN and renderMessageContent's detector.                       *)
(***************************************************************************)
\* (p|br|strong|b|em|i|ul|ol|li|h[1-6]|a|div|span|blockquote|pre|code|table)
TagNames ==
    { <<"p">>, <<"b", "r">>, <<"s", "t", "r", "o", "n", "g">>, <<"b">>, <<"e", "m">>,
      <<"i">>, <<"u", "l">>, <<"o", "l">>, <<"l", "i">>,
      <<"h", "1">>, <<"h", "2">>, <<"h", "3">>, <<"h", "4">>, <<"h", "5">>, <<"h", "6">>,
      <<"a">>, <<"d", "i", "v">>, <<"s", "p", "a", "n">>,
      <<"b", "l", "o", "c", "k", "q", "u", "o", "t", "e">>, <<"p", "r", "e">>,
      <<"c", "o", "d", "e">>, <<"t", "a", "b", "l", "e">> }

\* HTML_PATTERN matched at position p: '<', an optional '/', a tag name, one of [\s\/>]
HtmlMatchAt(s, p) ==
    /\ p <= Len(s)
    /\ s[p] = "<"
    /\ \E skip \in {0, 1} :
          /\ (skip = 1 => At(s, p + 1, <<"/">>))
          /\ \E name \in TagNames :
                /\ AtNoCase(s, p + 1 + skip, name)
                /\ p + 1 + skip + Len(name) <= Len(s)
                /\ s[p + 1 + skip + Len(name)] \in TagEnd

\* HTML_PATTERN without its i flag
HTML_PATTERN_test_CaseSensitive(s) ==
    {p \in 1..Len(s) : HtmlMatchAt(s, p) /\ \A k \in 1..Len(s) : Lower(s[k]) = s[k]} # {}

\* HTML_PATTERN.test(text): unanchored, no g flag, so every test starts at index 0
HTML_PATTERN_test(s) == {p \in 1..Len(s) : HtmlMatchAt(s, p)} # {}

\* the module-level patterns
PatternNames == {"HTML_PATTERN", "UL_RE", "OL_RE", "H_RE", "INLINE_OL_BREAK"}

\* the position after the match of HTML_PATTERN that starts at p
HtmlMatchEnd(s, p) ==
    LET ends == {p + 1 + skip + Len(name) : skip \in {0, 1}, name \in TagNames}
    IN  CHOOSE e \in ends :
            \E skip \in {0, 1}, name \in TagNames :
                /\ e = p + 1 + skip + Len(name)
                /\ (skip = 1 => At(s, p + 1, <<"/">>))
                /\ AtNoCase(s, p + 1 + skip, name)
                /\ e <= Len(s)
                /\ s[e] \in TagEnd

\* HTML_PATTERN.test(text) if the pattern had the g flag: the search starts at
\* lastIndex and leaves the end of the match, or 0, in lastIndex
HTML_PATTERN_exec_Global(s, li) ==
    LET ps == {p \in (li + 1)..Len(s) : HtmlMatchAt(s, p)}
    IN  IF ps = {} THEN [found |-> FALSE, lastIndex |-> 0]
        ELSE [found |-> TRUE,
              lastIndex |-> HtmlMatchEnd(s, CHOOSE p \in ps : \A q \in ps : p <= q)]

\* HTML_PATTERN.test(text) as a step on lastIndex: without the g or y flag
\* lastIndex is neither read nor written
HTML_PATTERN_exec(s, li) == [found |-> HTML_PATTERN_test(s), lastIndex |-> li]

\* a guard that only catches the absent argument
IsFalsy_NullOnly(t) == t = NULL

\* !text: true of null, undefined and the empty string
IsFalsy(t) == t = NULL \/ t = <<>>

(***************************************************************************)
(* inlineFormat: three global replacements, applied in this order.         *)
(***************************************************************************)
Concat3(a, b, c) == a \o b \o c

\* the backquote character (the module's lexer has no string for it)
BACKTICK == "BACKTICK"

STRONG == <<"s", "t", "r", "o", "n", "g">>
EM == <<"e", "m">>
CODE == <<"c", "o", "d", "e">>
TagOpen(name) == Concat3(<<"<">>, name, <<">">>)
TagClose(name) == Concat3(<<"<", "/">>, name, <<">">>)
Wrap(name, body) == Concat3(TagOpen(name), body, TagClose(name))

\* end of a match of  d ([^c]+) d  at position p (c the delimiter's character), or 0
DelimMatchEnd(s, p, d) ==
    LET b == p + Len(d)
        e == SkipUntil(s, b, {d[1]})
    IN  IF At(s, p, d) /\ e > b /\ At(s, e, d) THEN e + Len(d) ELSE 0

\* str.replace(/d([^c]+)d/g, '<name>$1</name>') from position p on
RECURSIVE ReplaceDelim(_, _, _, _)
ReplaceDelim(s, p, d, name) ==
    IF p > Len(s) THEN <<>>
    ELSE LET e == DelimMatchEnd(s, p, d)
         IN  IF e > 0
             THEN Wrap(name, Sub(s, p + Len(d), e - Len(d))) \o ReplaceDelim(s, e, d, name)
             ELSE <<s[p]>> \o ReplaceDelim(s, p + 1, d, name)

\* the italic substitution followed by one that deletes what asterisks are left
ReplaceItalic_DropStars(str) ==
    LET Keep(c) == c # "*"
    IN  SelectSeq(ReplaceDelim(str, 1, <<"*">>, EM), Keep)

\* a substitution that leaves the string as it is
ReplaceNone(str) == str

ReplaceBold(str) == ReplaceDelim(str, 1, <<"*", "*">>, STRONG)
ReplaceItalic(str) == ReplaceDelim(str, 1, <<"*">>, EM)
ReplaceCode(str) == ReplaceDelim(str, 1, <<BACKTICK>>, CODE)

\* the three substitutions with the italic one first
inlineFormat_ItalicFirst(str) == ReplaceCode(ReplaceBold(ReplaceItalic(str)))

inlineFormat(str) == ReplaceCode(ReplaceItalic(ReplaceBold(str)))

(***************************************************************************)
(* The patterns of markdownToHtml.                                         *)
(***************************************************************************)
\* \s+(.+) from position p: the content captured by (.+), or NoMatch.
\* \s+ is greedy and gives characters back until '.' can match one.
WsThenContent(s, p) ==
    LET w == SkipWhile(s, p, WhiteSpace)
        starts == {c \in (p + 1)..w : c <= Len(s) /\ s[c] \notin LineTerminators}
    IN  IF starts = {} THEN NoMatch
        ELSE LET c == CHOOSE x \in starts : \A y \in starts : y <= x
             IN  Sub(s, c, SkipUntil(s, c, LineTerminators))

\* UL_RE.exec(line): /^[ \t]*[-*+]\s+(.+)/, the capture or NoMatch
UL_RE_exec(line) ==
    LET m == SkipWhile(line, 1, BlankChars)
    IN  IF m <= Len(line) /\ line[m] \in UlMarkers
        THEN WsThenContent(line, m + 1)
        ELSE NoMatch

\* OL_RE.exec(line): /^[ \t]*\d+[.)]\s+(.+)/, the capture or NoMatch
OL_RE_exec(line) ==
    LET b == SkipWhile(line, 1, BlankChars)
        d == SkipWhile(line, b, Digits)
    IN  IF d > b /\ d <= Len(line) /\ line[d] \in OlDelims
        THEN WsThenContent(line, d + 1)
        ELSE NoMatch

\* H_RE with #+ in place of #{1,6}
H_RE_exec_AnyLevel(line) ==
    LET h == SkipWhile(line, 1, {"#"})
        c == WsThenContent(line, h)
    IN  IF h > 1 /\ c # NoMatch
        THEN [ok |-> TRUE, lvl |-> h - 1, content |-> c]
        ELSE NoGroups

\* H_RE.exec(line): /^(#{1,6})\s+(.+)/, [lvl, content] or NoGroups
H_RE_exec(line) ==
    LET h == SkipWhile(line, 1, {"#"})
        c == WsThenContent(line, h)
    IN  IF h > 1 /\ h <= 7 /\ c # NoMatch
        THEN [ok |-> TRUE, lvl |-> h - 1, content |-> c]
        ELSE NoGroups

\* \s+(\d+)[.)]\s+ matched at position q: [num, end] or NoGroups
OlMarkerAt(s, q) ==
    LET w == SkipWhile(s, q, WhiteSpace)
        d == SkipWhile(s, w, Digits)
        e == SkipWhile(s, d + 1, WhiteSpace)
    IN  IF w > q /\ d > w /\ d <= Len(s) /\ s[d] \in OlDelims /\ e > d + 1
        THEN [ok |-> TRUE, num |-> Sub(s, w, d), end |-> e]
        ELSE NoGroups

\* INLINE_OL_BREAK = /\.\s+(\d+)[.)]\s+/g matched at position q: [num, end] or NoGroups
INLINE_OL_BREAK_at(s, q) ==
    IF q <= Len(s) /\ s[q] = "." THEN OlMarkerAt(s, q + 1) ELSE NoGroups

\* the text from position p on, with no pre-pass applied
NoPrePass(s, p) == Sub(s, p, Len(s) + 1)

\* text.replace(INLINE_OL_BREAK, '.\n$1. ') from position p on
RECURSIVE ReplaceInlineOlBreak(_, _)
ReplaceInlineOlBreak(s, p) ==
    IF p > Len(s) THEN <<>>
    ELSE LET m == INLINE_OL_BREAK_at(s, p)
         IN  IF m.ok
             THEN Concat3(<<".", "\n">>, m.num, <<".", " ">>) \o ReplaceInlineOlBreak(s, m.end)
             ELSE <<s[p]>> \o ReplaceInlineOlBreak(s, p + 1)

\* text.split('\n') from position p on
RECURSIVE SplitLines(_, _)
SplitLines(s, p) ==
    LET e == SkipUntil(s, p, {"\n"})
    IN  IF e > Len(s) THEN <<Sub(s, p, e)>>
        ELSE <<Sub(s, p, e)>> \o SplitLines(s, e + 1)

\* content.split(/\s+(\d+)[.)]\s+/): p is the start of the current part, q the scan position
RECURSIVE SplitInline(_, _, _)
SplitInline(s, p, q) ==
    IF q > Len(s) THEN <<Sub(s, p, Len(s) + 1)>>
    ELSE LET m == OlMarkerAt(s, q)
         IN  IF m.ok
             THEN <<Sub(s, p, q), m.num>> \o SplitInline(s, m.end, m.end)
             ELSE SplitInline(s, p, q + 1)

\* String.prototype.trim
trim(s) ==
    LET b == SkipWhile(s, 1, WhiteSpace)
        ends == {e \in b..Len(s) : s[e] \notin WhiteSpace}
    IN  IF ends = {} THEN <<>>
        ELSE Sub(s, b, (CHOOSE x \in ends : \A y \in ends : y <= x) + 1)

\* array.join('')
RECURSIVE Join(_)
Join(parts) == IF parts = <<>> THEN <<>> ELSE Head(parts) \o Join(Tail(parts))

(***************************************************************************)
(* The inputs of the model: texts made of sample lines, every short text   *)
(* over a small alphabet, tag-like texts, and the examples of the          *)
(* documentation.                                                          *)
(***************************************************************************)
Prefixes == { <<>>, <<"-", " ">>, <<"1", ".", " ">>, <<"#", " ">> }
Contents == { <<>>, <<"a", ".">>, <<"c", " ", "2", ".", " ", "d">> }
\* a prefix with a content; the empty content stands alone or after "1. ", the
\* content with an inline marker follows a list prefix
LineSamples ==
    { q[1] \o q[2] :
        q \in { r \in Prefixes \X Contents :
                    /\ r[2] = <<>> => r[1] \in {<<>>, <<"1", ".", " ">>}
                    /\ Len(r[2]) > 2 => r[1] \in {<<"-", " ">>, <<"1", ".", " ">>} } }

RECURSIVE TextsOfLines(_)
TextsOfLines(n) ==
    IF n = 1 THEN LineSamples
    ELSE {Concat3(t, <<"\n">>, l) : t \in TextsOfLines(n - 1), l \in LineSamples}

LineInputs == UNION {TextsOfLines(n) : n \in 1..MaxLines}

Alphabet == {"1", ".", ")", " ", "a", "*"}
CharInputs == UNION {[1..n -> Alphabet] : n \in 0..MaxLen}

SampleTags == { <<"p">>, <<"P">>, <<"b", "r">>, <<"h", "1">>, <<"h", "7">>,
                <<"i", "m", "g">>, <<"p", "r", "e">>, <<"D", "i", "v">>,
                <<"b", "o", "d", "y">> }
HtmlInputs ==
    { pre \o Concat3(<<"<">> \o sl, name, term) :
        pre \in {<<>>, <<"-", " ">>}, sl \in {<<>>, <<"/">>}, name \in SampleTags,
        term \in {<<>>, <<">">>, <<" ">>, <<"/">>, <<"x">>, <<"\n", ">">>} }

Examples ==
    { <<"*", "*", "b", "o", "l", "d", "*", "*">>,
      <<"*", "i", "t", "a", "l", "i", "c", "*">>,
      <<"-", " ", "a", "\n", "-", " ", "b">>,
      <<"1", ".", " ", "a", "\n", "2", ".", " ", "b">>,
      <<"1", ".", " ", "a", "\n", "\n", "2", ".", " ", "b">>,
      <<"S", "u", "m", "m", "a", "r", "y", ".", " ", "2", ".", " ", "S", "e", "c", "o", "n", "d",
        ".", " ", "3", ".", " ", "T", "h", "i", "r", "d", ".">>,
      <<"#", " ", "T", "i", "t", "l", "e">>,
      <<"-", " ", "a", "\n", "1", ".", " ", "b">>,
      <<"1", ".", " ", "a", "\n", "-", " ", "b">>,
      <<"1", ".", " ", "F", "i", "r", "s", "t", " ", "2", ".", " ", "S", "e", "c", "o", "n", "d",
        " ", "3", ".", " ", "T", "h", "i", "r", "d">>,
      <<"-", " ", "a", "\r", "\n", "\r", "\n", "+", "\t", BACKTICK, "b", BACKTICK>> }

\* ordered-item lines whose content is made of words, markers, blanks and periods
MarkerTokens ==
    { <<"a">>, <<" ", "2", ".", " ">>, <<" ", "3", ")", " ">>, <<" ">>, <<".">> }

RECURSIVE TokenTexts(_)
TokenTexts(n) ==
    IF n = 0 THEN {<<>>}
    ELSE {t \o tok : t \in TokenTexts(n - 1), tok \in MarkerTokens}

OlInputs == {<<"1", ".", " ">> \o t : t \in UNION {TokenTexts(n) : n \in 1..MaxTokens}}

\* one line: a sentence, then an ordered list written inline after it
Sentences == { <<"S", "u", "m", "m", "a", "r", "y">>, <<"a", " ", "b">> }
ItemTexts == { <<"x">>, <<"S", "e", "c", "o", "n", "d", ".">> }
Numerals == { <<"2">>, <<"1", "0">> }
InlineItems == [num : Numerals, item : ItemTexts]

RECURSIVE InlineLists(_)
InlineLists(n) ==
    IF n = 0 THEN {<<>>}
    ELSE {Append(l, it) : l \in InlineLists(n - 1), it \in InlineItems}

InlineCases ==
    {[sentence |-> sn, items |-> l] :
        sn \in Sentences, l \in UNION {InlineLists(n) : n \in 1..MaxItems}}

RECURSIVE InlineTail(_)
InlineTail(l) ==
    IF l = <<>> THEN <<>>
    ELSE Concat3(<<" ">> \o Head(l).num, <<".", " ">>, Head(l).item) \o InlineTail(Tail(l))

InlineText(c) == Concat3(c.sentence, <<".">>, InlineTail(c.items))
InlineOlInputs == {InlineText(c) : c \in InlineCases}

\* one paragraph line made of inline delimiters and a letter
FmtTokens == { <<"*">>, <<"*", "*">>, <<"x">>, <<BACKTICK>> }

RECURSIVE FmtTexts(_)
FmtTexts(n) ==
    IF n = 0 THEN {<<>>}
    ELSE {t \o tok : t \in FmtTexts(n - 1), tok \in FmtTokens}

FmtInputs == UNION {FmtTexts(n) : n \in 1..MaxFmt}

\* a line of number signs, a separator and a content, alone or after a list item
Hashes(n) == [k \in 1..n |-> "#"]
HeadingInputs ==
    { pre \o Concat3(Hashes(n), sep, c) :
        pre \in {<<>>, <<" ">>, <<"-", " ", "a", "\n">>}, n \in 1..MaxHashes,
        sep \in {<<>>, <<" ">>, <<"\t", " ">>}, c \in {<<>>, <<"T">>, <<"#">>} }

Inputs ==
    {NULL} \cup LineInputs \cup CharInputs \cup HtmlInputs \cup OlInputs
           \cup InlineOlInputs \cup FmtInputs \cup HeadingInputs \cup Examples

(***************************************************************************)
(* AgentSessionsHome: paged list of sessions with generated titles.        *)
(***************************************************************************)
PAGE_SIZE == 5
LOADING == "Loading..."
UNTITLED == "Untitled Conversation"

\* the sessions the server holds, newest first, and what it returns for them
SessionIds == 1..ServerTotal
ServerSession(id) ==
    [sessionId |-> id,
     title |-> IF id % PAGE_SIZE \in {1, 2, 3} THEN LOADING ELSE "Stored title",
     hasMessages |-> id % PAGE_SIZE # 3]

\* Math.ceil(count / PAGE_SIZE) || 0
TotalPages(count) == (count + PAGE_SIZE - 1) \div PAGE_SIZE

\* getRecentSessionsForHome({pageSize, pageNumber}): result.sessions
ServerPage(pageNumber) ==
    LET first == (pageNumber - 1) * PAGE_SIZE + 1
        last == IF pageNumber * PAGE_SIZE < ServerTotal THEN pageNumber * PAGE_SIZE
                ELSE ServerTotal
    IN  [k \in 1..(last - first + 1) |-> ServerSession(first + k - 1)]

\* what generateSessionTitle can settle with: a title, an empty string, a rejection
TitleOutcomes == {"Generated title", "", "reject"}

\* the component after construction (field initialisers, lines 11-21)
HomeConstructed ==
    [sessions |-> <<>>,
     totalCount |-> 0,
     currentPage |-> 1,
     isLoading |-> TRUE,
     failed |-> FALSE,                       \* this.error is set
     titleCache |-> [id \in SessionIds |-> ""],
     loads |-> {},                           \* getRecentSessionsForHome calls in flight
     runs |-> {},                            \* generateMissingTitles loops awaiting a title
     issued |-> 0,                           \* history: number of loadPage calls
     lastPage |-> 0,                         \* history: the page of the latest loadPage call
     outOfRange |-> FALSE,                   \* history: a click asked for a page outside 1..TotalPages
     requested |-> [id \in SessionIds |-> 0]]   \* history: generateSessionTitle calls per session

\* hasPrevPage, hasNextPage
hasPrevPage(h) == h.currentPage > 1
hasNextPage(h) == h.currentPage < TotalPages(h.totalCount)

\* loadPage(pageNumber) up to its await
loadPage(h, pageNumber) ==
    [h EXCEPT !.isLoading = TRUE,
              !.failed = FALSE,
              !.loads = @ \cup {[n |-> h.issued + 1, pageNumber |-> pageNumber]},
              !.issued = @ + 1,
              !.lastPage = pageNumber]

\* positions of the sessions that s => !titleCache[s.sessionId] && s.title === 'Loading...'
\* && s.messages && s.messages.length > 0 keeps
NeedingTitle(h) ==
    {k \in 1..Len(h.sessions) :
        /\ h.titleCache[h.sessions[k].sessionId] = ""
        /\ h.sessions[k].title = LOADING
        /\ h.sessions[k].hasMessages}

\* the session ids at the given positions, in list order
RECURSIVE IdsAt(_, _, _)
IdsAt(list, keep, k) ==
    IF k > Len(list) THEN <<>>
    ELSE (IF k \in keep THEN <<list[k].sessionId>> ELSE <<>>) \o IdsAt(list, keep, k + 1)

\* the for-of loop of generateMissingTitles arriving at the head of queue:
\* generateSessionTitle is called for it and awaited
AwaitTitle(h, n, queue) ==
    IF queue = <<>> THEN h
    ELSE [h EXCEPT !.runs = @ \cup {[n |-> n, queue |-> queue]},
                   !.requested[Head(queue)] = @ + 1]

\* generateMissingTitles() up to its first await, called by load n
generateMissingTitles(h, n) == AwaitTitle(h, n, IdsAt(h.sessions, NeedingTitle(h), 1))

\* this.sessions with the title of the session of that id set, if it is there
WithTitle(list, id, title) ==
    [k \in 1..Len(list) |->
        IF list[k].sessionId = id THEN [list[k] EXCEPT !.title = title] ELSE list[k]]

\* connectedCallback() { this.loadPage(1); }
connectedCallback ==
    /\ home.issued = 0
    /\ home' = loadPage(home, 1)
    /\ UNCHANGED <<formatter, gpt>>

\* handlePrev() { if (this.hasPrevPage) this.loadPage(this.currentPage - 1); }
handlePrev ==
    /\ home.issued > 0
    /\ home.issued < MaxLoads
    /\ home' = IF hasPrevPage(home)
               THEN [loadPage(home, home.currentPage - 1) EXCEPT
                        !.outOfRange = @ \/ home.currentPage - 1
                                                \notin 1..TotalPages(home.totalCount)]
               ELSE home
    /\ UNCHANGED <<formatter, gpt>>

\* handleNext() { if (this.hasNextPage) this.loadPage(this.currentPage + 1); }
handleNext ==
    /\ home.issued > 0
    /\ home.issued < MaxLoads
    /\ home' = IF hasNextPage(home)
               THEN [loadPage(home, home.currentPage + 1) EXCEPT
                        !.outOfRange = @ \/ home.currentPage + 1
                                                \notin 1..TotalPages(home.totalCount)]
               ELSE home
    /\ UNCHANGED <<formatter, gpt>>

\* the rest of loadPage after a resolved await (lines 150-171, 178)
LoadResolved(h, req) ==
    LET list == ServerPage(req.pageNumber)
        shown == [k \in 1..Len(list) |->
                     [list[k] EXCEPT !.title =
                         IF h.titleCache[list[k].sessionId] # ""
                         THEN h.titleCache[list[k].sessionId] ELSE @]]
        loaded == [h EXCEPT !.loads = @ \ {req},
                            !.sessions = shown,
                            !.totalCount = ServerTotal,
                            !.currentPage = req.pageNumber,
                            !.isLoading = FALSE]
    IN  generateMissingTitles(loaded, req.n)

\* getRecentSessionsForHome resolves
loadPage_resolve ==
    /\ \E req \in home.loads : home' = LoadResolved(home, req)
    /\ UNCHANGED <<formatter, gpt>>

\* getRecentSessionsForHome rejects: the catch and finally blocks (lines 172-179)
loadPage_reject ==
    /\ \E req \in home.loads :
          home' = [home EXCEPT !.loads = @ \ {req},
                               !.failed = TRUE,
                               !.sessions = <<>>,
                               !.totalCount = 0,
                               !.isLoading = FALSE]
    /\ UNCHANGED <<formatter, gpt>>

\* one awaited generateSessionTitle settles; the loop goes on to the next session
TitleSettled(h, run, outcome) ==
    LET id == Head(run.queue)
        title == IF outcome = "reject" THEN UNTITLED ELSE outcome
        kept == outcome # "reject" /\ (outcome = "" \/ outcome = LOADING)
        set == IF kept THEN [h EXCEPT !.runs = @ \ {run}]
               ELSE [h EXCEPT !.runs = @ \ {run},
                              !.titleCache[id] = title,
                              !.sessions = WithTitle(@, id, title)]
    IN  AwaitTitle(set, run.n, Tail(run.queue))

generateSessionTitle_settle ==
    /\ \E run \in home.runs, outcome \in TitleOutcomes :
          home' = TitleSettled(home, run, outcome)
    /\ UNCHANGED <<formatter, gpt>>

HomeNext ==
    \/ connectedCallback
    \/ handlePrev
    \/ handleNext
    \/ loadPage_resolve
    \/ loadPage_reject
    \/ generateSessionTitle_settle

(***************************************************************************)
(* AgentGPT: the conversation viewer with its two wires and its titles.    *)
(***************************************************************************)
NoSelection == [sessionId |-> 0]            \* selectedSession = null
NoData == "undefined"                       \* a wire emission without data
NoTime == 0                                 \* a startTime that is null
BrowserTimeZone == "browser"                \* no timeZone option given to toLocale...String
UserTimeZones == {"America/Chicago"}        \* what getCurrentUserTimeZone returns
DateFilters == {7, 30, 90}

Message(role, timestamp) == [role |-> role, timestamp |-> timestamp]

\* getUserSessions({daysLookback}): data
UserSessions(daysLookback) ==
    << [sessionId |-> 1, title |-> LOADING, agentName |-> "Sales Agent", startTime |-> 10,
        messages |-> <<Message("USER", 11), Message("AGENT", 12)>>],
       [sessionId |-> 2, title |-> LOADING, agentName |-> "", startTime |-> NoTime,
        messages |-> <<Message("AGENT", 21)>>],
       [sessionId |-> 3, title |-> "Stored title", agentName |-> "Sales Agent", startTime |-> 5,
        messages |-> <<Message("user", 6)>>] >>
    \o (IF daysLookback > 7
        THEN << [sessionId |-> 4, title |-> LOADING, agentName |-> "Sales Agent",
                 startTime |-> 3, messages |-> <<>>] >>
        ELSE <<>>)

GptIds == {s.sessionId : s \in {UserSessions(90)[k] : k \in 1..Len(UserSessions(90))}}

\* the component after construction (field initialisers, lines 136-143)
GptConstructed ==
    [sessions |-> <<>>,
     objects |-> 0,                          \* identity of the session objects in this.sessions
     selectedSession |-> NoSelection,
     dateFilter |-> 7,
     isLoading |-> TRUE,
     userTimeZone |-> "null",
     wire |-> TRUE,                          \* getUserSessions owes a result to wiredSessions
     runs |-> {},                            \* generateMissingTitles loops awaiting a title
     nruns |-> 0,
     filterChanges |-> 0,                    \* history: handleFilterChange calls
     arrivals |-> <<>>,                      \* history: the wire results with data, in order
     settled |-> [id \in GptIds |-> "none"], \* history: how the latest title request ended
     arrived |-> 0]                          \* history: session whose generated title the last step wrote

\* formatDate / formatTime: the value depends on the instant and on the time
\* zone the options carry (this.userTimeZone when set)
FormatWith(instant, userTimeZone) ==
    IF instant = NoTime THEN [of |-> NoTime, timeZone |-> "none"]
    ELSE [of |-> instant,
          timeZone |-> IF userTimeZone = "null" THEN BrowserTimeZone ELSE userTimeZone]
formatDate(g, dateTimeString) == FormatWith(dateTimeString, g.userTimeZone)
formatTime(g, timestamp) == FormatWith(timestamp, g.userTimeZone)

\* String.prototype.toUpperCase on the role names that occur
toUpperCase(role) == IF role = "user" THEN "USER" ELSE role

\* getRoleLabel(role, agentName)
getRoleLabel(role, agentName) ==
    IF toUpperCase(role) \in {"USER", "ENDUSER"} THEN "You"
    ELSE IF toUpperCase(role) \in {"AGENT", "SYSTEM"}
         THEN (IF agentName = "" THEN "Agentforce AI" ELSE agentName)
         ELSE role

\* processMessagesWithAgent(messages, agentName); processMessages(messages) is
\* the same with agentName null.  cssClass and renderedContent, functions of
\* the role and the text alone, are left out.
processMessagesWithAgent(g, messages, agentName) ==
    [k \in 1..Len(messages) |->
        [role |-> messages[k].role,
         timestamp |-> messages[k].timestamp,
         roleLabel |-> getRoleLabel(toUpperCase(messages[k].role), agentName),
         formattedTime |-> formatTime(g, messages[k].timestamp),
         isUser |-> toUpperCase(messages[k].role) \in {"USER", "ENDUSER"}]]
processMessages(g, messages) == processMessagesWithAgent(g, messages, "")

\* the map callback of wiredSessions
ProcessSession(g, session) ==
    LET sessionStartTime ==
            IF session.startTime # NoTime THEN session.startTime
            ELSE IF Len(session.messages) > 0 THEN session.messages[1].timestamp
            ELSE NoTime
    IN  [sessionId |-> session.sessionId,
         title |-> session.title,
         agentName |-> session.agentName,
         startTime |-> sessionStartTime,
         formattedDate |-> formatDate(g, sessionStartTime),
         messages |-> processMessages(g, session.messages)]

\* the map callback of wiredTimeZone
Reformat(g, s) ==
    [s EXCEPT !.formattedDate = formatDate(g, s.startTime),
              !.messages = [k \in 1..Len(s.messages) |->
                               [s.messages[k] EXCEPT
                                   !.formattedTime = formatTime(g, s.messages[k].timestamp)]]]

\* wiredTimeZone({ data })
wiredTimeZone ==
    /\ Len(SelectSeq(gpt.arrivals, LAMBDA a : a = "timezone")) = 0
    /\ \E data \in UserTimeZones \cup {NoData} :
          gpt' = IF data = NoData THEN gpt
                 ELSE LET g == [gpt EXCEPT !.userTimeZone = data,
                                           !.arrivals = Append(@, "timezone"),
                                           !.arrived = 0]
                      IN  IF Len(g.sessions) > 0
                          THEN [g EXCEPT !.sessions = [k \in 1..Len(@) |-> Reformat(g, @[k])],
                                         !.objects = @ + 1]
                          ELSE g
    /\ UNCHANGED <<formatter, home>>

\* sessionsNeedingTitles, sorted by startTime descending (Array.prototype.sort
\* is stable): the session ids, newest first
RECURSIVE SortNewestFirst(_)
SortNewestFirst(set) ==
    IF set = {} THEN <<>>
    ELSE LET first == CHOOSE s \in set :
                          \A t \in set : t.startTime < s.startTime
                                         \/ (t.startTime = s.startTime /\ t.at >= s.at)
         IN  <<first.sessionId>> \o SortNewestFirst(set \ {first})

sessionsNeedingTitles(g) ==
    SortNewestFirst({[sessionId |-> g.sessions[k].sessionId,
                      startTime |-> g.sessions[k].startTime, at |-> k] :
                        k \in {j \in 1..Len(g.sessions) :
                                  /\ g.sessions[j].title = LOADING
                                  /\ Len(g.sessions[j].messages) > 0}})

\* the for-of loop of generateMissingTitles arriving at the head of queue:
\* generateTitleForSession calls generateSessionTitle and awaits it
AwaitGenerated(g, run, queue) ==
    IF queue = <<>> THEN g
    ELSE [g EXCEPT !.runs = @ \cup {[run EXCEPT !.queue = queue]}]

\* wiredSessions(result)
wiredSessions ==
    /\ gpt.wire
    /\ \E ok \in BOOLEAN :
          gpt' =
            IF ok
            THEN LET data == UserSessions(gpt.dateFilter)
                     g == [gpt EXCEPT
                              !.wire = FALSE,
                              !.sessions = [k \in 1..Len(data) |-> ProcessSession(gpt, data[k])],
                              !.objects = @ + 1,
                              !.isLoading = FALSE,
                              !.arrivals = Append(@, "sessions"),
                              !.nruns = @ + 1,
                              !.arrived = 0]
                 IN  AwaitGenerated(g, [n |-> g.nruns, objects |-> g.objects, queue |-> <<>>],
                                    sessionsNeedingTitles(g))
            ELSE [gpt EXCEPT !.wire = FALSE,
                             !.sessions = <<>>,
                             !.objects = @ + 1,
                             !.isLoading = FALSE,
                             !.arrived = 0]
    /\ UNCHANGED <<formatter, home>>

\* handleFilterChange(event)
handleFilterChange ==
    /\ gpt.filterChanges < MaxFilterChanges
    /\ \E value \in DateFilters :
          gpt' = [gpt EXCEPT !.dateFilter = value,
                             !.isLoading = TRUE,
                             !.selectedSession = NoSelection,
                             !.wire = TRUE,
                             !.filterChanges = @ + 1,
                             !.arrived = 0]
    /\ UNCHANGED <<formatter, home>>

\* handleSessionSelect(event): the click is on a row of the rendered list
handleSessionSelect ==
    /\ \E k \in 1..Len(gpt.sessions) :
          gpt' = [gpt EXCEPT
                     !.selectedSession =
                         [gpt.sessions[k] EXCEPT
                             !.messages = processMessagesWithAgent(gpt, @, gpt.sessions[k].agentName)],
                     !.arrived = 0]
    /\ UNCHANGED <<formatter, home>>

\* handleBackToList(event)
handleBackToList ==
    /\ gpt.selectedSession # NoSelection
    /\ gpt' = [gpt EXCEPT !.selectedSession = NoSelection, !.arrived = 0]
    /\ UNCHANGED <<formatter, home>>

\* the position of the session of that id in this.sessions, 0 for -1
findIndex(list, id) ==
    IF \E k \in 1..Len(list) : list[k].sessionId = id
    THEN CHOOSE k \in 1..Len(list) :
            /\ list[k].sessionId = id
            /\ \A j \in 1..(k - 1) : list[j].sessionId # id
    ELSE 0

\* generateTitleForSession after generateSessionTitle resolved with a title
\* that is neither empty nor 'Loading...' (lines 253-267)
TitleGenerated(g, id, generatedTitle) ==
    LET sessionIndex == findIndex(g.sessions, id)
    IN  IF sessionIndex = 0 THEN g
        ELSE LET titled == [g EXCEPT !.sessions[sessionIndex].title = generatedTitle,
                                     !.arrived = id]
             IN  IF g.selectedSession # NoSelection /\ g.selectedSession.sessionId = id
                 THEN [titled EXCEPT !.selectedSession = titled.sessions[sessionIndex]]
                 ELSE titled

\* the catch of generateMissingTitles: session.title = 'Untitled Conversation'
\* on the object the loop holds, which is in this.sessions only while the
\* list still holds the objects the loop started with
TitleFailed(g, run, id) ==
    LET sessionIndex == findIndex(g.sessions, id)
    IN  IF run.objects = g.objects /\ sessionIndex # 0
        THEN [g EXCEPT !.sessions[sessionIndex].title = UNTITLED]
        ELSE g

\* one awaited generateSessionTitle settles; the loop goes on to the next session
generateTitleForSession_settle ==
    /\ \E run \in gpt.runs, outcome \in TitleOutcomes :
          LET id == Head(run.queue)
              g == [gpt EXCEPT !.runs = @ \ {run}, !.settled[id] = outcome, !.arrived = 0]
              done == IF outcome = "reject" THEN TitleFailed(g, run, id)
                      ELSE IF outcome = "" \/ outcome = LOADING THEN g
                      ELSE TitleGenerated(g, id, outcome)
          IN  gpt' = AwaitGenerated(done, run, Tail(run.queue))
    /\ UNCHANGED <<formatter, home>>

GptNext ==
    \/ wiredTimeZone
    \/ wiredSessions
    \/ handleFilterChange
    \/ handleSessionSelect
    \/ handleBackToList
    \/ generateTitleForSession_settle

(***************************************************************************)
(* The state machine: one call of renderMessageContent after another.      *)
(***************************************************************************)
Init ==
    /\ text \in Inputs
    /\ pc = "call"
    /\ lines = <<>>
    /\ i = 0
    /\ out = <<>>
    /\ listType = "null"
    /\ listItems = <<>>
    /\ result = NoResult
    /\ ran = {}
    /\ itemSrc = <<>>
    /\ outSrc = <<>>
    /\ calls = 1
    /\ prev = NoPrev
    /\ lastIndex = [re \in PatternNames |-> 0]
    /\ memo = {}
    /\ outAt = <<>>
    /\ itemAt = <<>>
    /\ allItems = <<>>
    /\ home = HomeConstructed
    /\ gpt = GptConstructed

locals == <<lines, i, out, listType, listItems, itemSrc, outSrc, outAt, itemAt, allItems>>

\* the name interpolated by <${listType}> in the template of flushList
TypeTag(lt) ==
    CASE lt = "ul" -> <<"u", "l">>
      [] lt = "ol" -> <<"o", "l">>
      [] OTHER -> <<"n", "u", "l", "l">>

LI == <<"l", "i">>
Li(body) == Wrap(LI, body)
BR == <<"<", "b", "r", ">">>
Heading(lvl, body) == Wrap(<<"h", CHOOSE d \in Digits : d = ToString(lvl)>>, body)
\* a paragraph in an element that HTML_PATTERN does not list
Paragraph_Q(body) == Wrap(<<"q">>, body)
Paragraph(body) == Wrap(<<"p">>, body)

\* flushList with unshift in place of push: the block goes to the front of out
flushList_Front(st) ==
    IF Len(st.listItems) > 0
    THEN [out |-> <<Wrap(TypeTag(st.listType), Join(st.listItems))>> \o st.out,
          listType |-> "null",
          listItems |-> <<>>,
          outSrc |-> <<st.itemSrc>> \o st.outSrc,
          itemSrc |-> <<>>]
    ELSE st

\* flushList that joins the items without the first one
flushList_SkipFirst(st) ==
    IF Len(st.listItems) > 0
    THEN [out |-> Append(st.out, Wrap(TypeTag(st.listType), Join(Tail(st.listItems)))),
          listType |-> "null",
          listItems |-> <<>>,
          outSrc |-> Append(st.outSrc, st.itemSrc),
          itemSrc |-> <<>>]
    ELSE st

\* flushList without its listItems.length = 0
flushList_NoClear(st) ==
    IF Len(st.listItems) > 0
    THEN [st EXCEPT !.out = Append(@, Wrap(TypeTag(st.listType), Join(st.listItems))),
                    !.outSrc = Append(@, st.itemSrc)]
    ELSE st

\* flushList(), on the values of out, listType, listItems (and their histories)
flushList(st) ==
    IF Len(st.listItems) > 0
    THEN [out |-> Append(st.out, Wrap(TypeTag(st.listType), Join(st.listItems))),
          listType |-> "null",
          listItems |-> <<>>,
          outSrc |-> Append(st.outSrc, st.itemSrc),
          itemSrc |-> <<>>]
    ELSE st

Current ==
    [out |-> out, listType |-> listType, listItems |-> listItems,
     outSrc |-> outSrc, itemSrc |-> itemSrc]

\* if (!text) return '';
RenderEmpty ==
    /\ pc = "call"
    /\ IsFalsy(text)
    /\ result' = <<>>
    /\ memo' = memo \cup {[text |-> text, result |-> <<>>]}
    /\ pc' = "done"
    /\ UNCHANGED <<text, locals, ran, calls, prev, lastIndex, components>>

\* if (HTML_PATTERN.test(text)) return text;
RenderHtml ==
    /\ pc = "call"
    /\ ~IsFalsy(text)
    /\ HTML_PATTERN_exec(text, lastIndex.HTML_PATTERN).found
    /\ lastIndex' = [lastIndex EXCEPT
                        !.HTML_PATTERN = HTML_PATTERN_exec(text, @).lastIndex]
    /\ result' = text
    /\ memo' = memo \cup {[text |-> text, result |-> text]}
    /\ ran' = ran \cup {"detector"}
    /\ pc' = "done"
    /\ UNCHANGED <<text, locals, calls, prev, components>>

\* return markdownToHtml(text): the pre-pass, the split and the fresh locals
RenderMarkdown ==
    /\ pc = "call"
    /\ ~IsFalsy(text)
    /\ ~HTML_PATTERN_exec(text, lastIndex.HTML_PATTERN).found
    /\ lastIndex' = [lastIndex EXCEPT
                        !.HTML_PATTERN = HTML_PATTERN_exec(text, @).lastIndex,
                        !.INLINE_OL_BREAK = 0]
    /\ ran' = ran \cup {"detector", "converter"}
    /\ lines' = SplitLines(ReplaceInlineOlBreak(text, 1), 1)
    /\ i' = 1
    /\ out' = <<>>
    /\ listType' = "null"
    /\ listItems' = <<>>
    /\ itemSrc' = <<>>
    /\ outSrc' = <<>>
    /\ outAt' = <<>>
    /\ itemAt' = <<>>
    /\ allItems' = <<>>
    /\ pc' = "loop"
    /\ UNCHANGED <<text, result, calls, prev, memo, components>>

InLoop == pc = "loop" /\ i <= Len(lines)

SetLocals(st) ==
    /\ out' = st.out
    /\ listType' = st.listType
    /\ listItems' = st.listItems
    /\ outSrc' = st.outSrc
    /\ itemSrc' = st.itemSrc
    /\ LET flushed == Len(st.outSrc) > Len(outSrc) /\ st.outSrc[Len(outSrc) + 1] # <<>>
           kept == IF flushed THEN 0 ELSE Len(listItems)
           pushed == SubSeq(st.listItems, kept + 1, Len(st.listItems))
       IN  /\ outAt' = outAt \o [k \in 1..(Len(st.out) - Len(out)) |->
                                   IF st.outSrc[Len(out) + k] # <<>> THEN itemAt ELSE <<i>>]
           /\ itemAt' = (IF flushed THEN <<>> ELSE itemAt) \o [k \in 1..Len(pushed) |-> i]
           /\ allItems' = allItems \o pushed

\* the items an ordered-item line adds for its content
OlItems_KeepNumerals(content) ==
    LET inlineParts == SplitInline(content, 1, 1)
        RECURSIVE Collect(_)
        Collect(j) ==
            IF j > Len(inlineParts) THEN <<>>
            ELSE (IF trim(inlineParts[j]) # <<>>
                  THEN <<Li(inlineFormat(trim(inlineParts[j])))>> ELSE <<>>)
                 \o Collect(j + 1)
    IN  IF Len(inlineParts) > 1 THEN Collect(1) ELSE <<Li(inlineFormat(content))>>

\* the items of an ordered-item line when the empty parts are dropped also
\* from a content that was not split
OlItems_DropEmpty(content) ==
    LET inlineParts == SplitInline(content, 1, 1)
        kept == {j \in 1..Len(inlineParts) : j % 2 = 1 /\ trim(inlineParts[j]) # <<>>}
        RECURSIVE Collect(_)
        Collect(j) ==
            IF j > Len(inlineParts) THEN <<>>
            ELSE (IF j \in kept THEN <<Li(inlineFormat(trim(inlineParts[j])))>> ELSE <<>>)
                 \o Collect(j + 2)
    IN  Collect(1)

OlItems(content) ==
    LET inlineParts == SplitInline(content, 1, 1)
        kept == {j \in 1..Len(inlineParts) : j % 2 = 1 /\ trim(inlineParts[j]) # <<>>}
        RECURSIVE Collect(_)
        Collect(j) ==
            IF j > Len(inlineParts) THEN <<>>
            ELSE (IF j \in kept THEN <<Li(inlineFormat(trim(inlineParts[j])))>> ELSE <<>>)
                 \o Collect(j + 2)
    IN  IF Len(inlineParts) > 1 THEN Collect(1) ELSE <<Li(inlineFormat(content))>>

\* the unordered branch without its  if (listType === 'ol') flushList();
UlLine_NoFlush ==
    /\ InLoop
    /\ UL_RE_exec(lines[i]) # NoMatch
    /\ LET item == Li(inlineFormat(UL_RE_exec(lines[i])))
       IN  SetLocals([Current EXCEPT !.listType = "ul",
                                     !.listItems = Append(@, item),
                                     !.itemSrc = Append(@, "ul")])
    /\ i' = i + 1
    /\ UNCHANGED <<text, pc, lines, result, ran, calls, prev, lastIndex, memo, components>>

\* a line that matches UL_RE
UlLine ==
    /\ InLoop
    /\ UL_RE_exec(lines[i]) # NoMatch
    /\ LET st == IF listType = "ol" THEN flushList(Current) ELSE Current
           item == Li(inlineFormat(UL_RE_exec(lines[i])))
       IN  SetLocals([st EXCEPT !.listType = "ul",
                                !.listItems = Append(@, item),
                                !.itemSrc = Append(@, "ul")])
    /\ i' = i + 1
    /\ UNCHANGED <<text, pc, lines, result, ran, calls, prev, lastIndex, memo, components>>

\* the ordered branch without its  if (listType === 'ul') flushList();
OlLine_NoFlush ==
    /\ InLoop
    /\ UL_RE_exec(lines[i]) = NoMatch
    /\ OL_RE_exec(lines[i]) # NoMatch
    /\ LET items == OlItems(OL_RE_exec(lines[i]))
       IN  SetLocals([Current EXCEPT !.listType = "ol",
                                     !.listItems = @ \o items,
                                     !.itemSrc = @ \o [k \in 1..Len(items) |-> "ol"]])
    /\ i' = i + 1
    /\ UNCHANGED <<text, pc, lines, result, ran, calls, prev, lastIndex, memo, components>>

\* a line that matches OL_RE (and not UL_RE)
OlLine ==
    /\ InLoop
    /\ UL_RE_exec(lines[i]) = NoMatch
    /\ OL_RE_exec(lines[i]) # NoMatch
    /\ LET st == IF listType = "ul" THEN flushList(Current) ELSE Current
           items == OlItems(OL_RE_exec(lines[i]))
       IN  SetLocals([st EXCEPT !.listType = "ol",
                                !.listItems = @ \o items,
                                !.itemSrc = @ \o [k \in 1..Len(items) |-> "ol"]])
    /\ i' = i + 1
    /\ UNCHANGED <<text, pc, lines, result, ran, calls, prev, lastIndex, memo, components>>

NotListLine(line) == UL_RE_exec(line) = NoMatch /\ OL_RE_exec(line) = NoMatch

\* the blank-line branch without its  if (listType !== null) continue;
BlankLine_AlwaysBreak ==
    /\ InLoop
    /\ NotListLine(lines[i])
    /\ trim(lines[i]) = <<>>
    /\ LET st == flushList(Current)
       IN  SetLocals([st EXCEPT !.out = Append(@, BR), !.outSrc = Append(@, <<>>)])
    /\ i' = i + 1
    /\ UNCHANGED <<text, pc, lines, result, ran, calls, prev, lastIndex, memo, components>>

\* a blank line: skipped inside a list, otherwise a <br>
BlankLine ==
    /\ InLoop
    /\ NotListLine(lines[i])
    /\ trim(lines[i]) = <<>>
    /\ IF listType # "null"
       THEN UNCHANGED <<out, listType, listItems, outSrc, itemSrc, outAt, itemAt, allItems>>
       ELSE LET st == flushList(Current)
            IN  SetLocals([st EXCEPT !.out = Append(@, BR), !.outSrc = Append(@, <<>>)])
    /\ i' = i + 1
    /\ UNCHANGED <<text, pc, lines, result, ran, calls, prev, lastIndex, memo, components>>

\* a line that matches H_RE
HeadingLine ==
    /\ InLoop
    /\ NotListLine(lines[i])
    /\ trim(lines[i]) # <<>>
    /\ H_RE_exec(lines[i]).ok
    /\ LET st == flushList(Current)
           h == H_RE_exec(lines[i])
       IN  SetLocals([st EXCEPT !.out = Append(@, Heading(h.lvl, inlineFormat(h.content))),
                                !.outSrc = Append(@, <<>>)])
    /\ i' = i + 1
    /\ UNCHANGED <<text, pc, lines, result, ran, calls, prev, lastIndex, memo, components>>

\* any other line: a paragraph
ParagraphLine ==
    /\ InLoop
    /\ NotListLine(lines[i])
    /\ trim(lines[i]) # <<>>
    /\ ~H_RE_exec(lines[i]).ok
    /\ LET st == flushList(Current)
       IN  SetLocals([st EXCEPT !.out = Append(@, Paragraph(inlineFormat(lines[i]))),
                                !.outSrc = Append(@, <<>>)])
    /\ i' = i + 1
    /\ UNCHANGED <<text, pc, lines, result, ran, calls, prev, lastIndex, memo, components>>

\* the return without the final flushList()
Finish_NoFlush ==
    /\ pc = "loop"
    /\ i > Len(lines)
    /\ result' = Join(out)
    /\ memo' = memo \cup {[text |-> text, result |-> Join(out)]}
    /\ pc' = "done"
    /\ UNCHANGED <<text, locals, ran, calls, prev, lastIndex, components>>

\* after the loop: flushList(); return out.join('');
Finish ==
    /\ pc = "loop"
    /\ i > Len(lines)
    /\ LET st == flushList(Current)
       IN  /\ SetLocals(st)
           /\ result' = Join(st.out)
           /\ memo' = memo \cup {[text |-> text, result |-> Join(st.out)]}
    /\ pc' = "done"
    /\ UNCHANGED <<text, lines, i, ran, calls, prev, lastIndex, components>>

\* a caller renders the returned string, or the same text once more
CallAgain ==
    /\ pc = "done"
    /\ calls < MaxCalls
    /\ text' \in {result, text}
    /\ prev' = [text |-> text, result |-> result]
    /\ calls' = calls + 1
    /\ ran' = {}
    /\ pc' = "call"
    /\ UNCHANGED <<locals, result, lastIndex, memo, components>>

Next ==
    \/ RenderEmpty
    \/ RenderHtml
    \/ RenderMarkdown
    \/ UlLine
    \/ OlLine
    \/ BlankLine
    \/ HeadingLine
    \/ ParagraphLine
    \/ Finish
    \/ CallAgain

Spec == Init /\ [][Next]_vars

\* the components run with no formatter call under way
ComponentInit == Init /\ text = NULL
HomeSpec == ComponentInit /\ [][HomeNext]_vars
GptSpec == ComponentInit /\ [][GptNext]_vars

(***************************************************************************)
(* Claims.                                                                 *)
(***************************************************************************)
\* '<' or '</', an allowlisted tag name in any letter case, then whitespace, '/' or '>'
HasTagBoundary(s) ==
    \E p \in 1..Len(s) :
        /\ s[p] = "<"
        /\ \E sl \in {<<>>, <<"/">>}, name \in TagNames :
              LET w == sl \o name
              IN  /\ AtNoCase(s, p + 1, w)
                  /\ p + Len(w) + 1 <= Len(s)
                  /\ s[p + Len(w) + 1] \in TagEnd

IsString(s) == s # NULL /\ s # NoResult /\ \A k \in 1..Len(s) : s[k] \in STRING

\* C1: a non-empty text that contains an allowlisted tag boundary is returned
\* unchanged, without the converter having run; rendering that result once
\* more returns the same string again.
C1_HtmlReturnedUnchanged ==
    /\ (pc = "done" /\ text # NULL /\ HasTagBoundary(text))
          => (result = text /\ ran = {"detector"})
    /\ (pc = "done" /\ calls > 1 /\ prev.text # NULL /\ HasTagBoundary(prev.text))
          => (result = prev.result /\ result = prev.text /\ "converter" \notin ran)

C1_Witness ==
    /\ pc = "done"
    /\ calls = 2
    /\ prev.text = <<"-", " ", "<", "/", "D", "i", "v", "\n", ">">>
    /\ result = prev.text

\* C2: an empty or absent input gives the empty string and runs neither the
\* detector nor the converter; every other input runs the detector, the loop
\* index of the converter stays within the lines, and the value returned is
\* a string.
C2_EmptyInputEmptyOutput ==
    /\ (pc = "done" /\ (text = NULL \/ text = <<>>)) => (result = <<>> /\ ran = {})
    /\ (pc = "done" /\ text # NULL /\ text # <<>>) => "detector" \in ran
    /\ pc = "done" => IsString(result)
    /\ pc = "loop" => (i >= 1 /\ i <= Len(lines) + 1 /\ text # NULL /\ text # <<>>)

C2_Witness ==
    /\ pc = "done"
    /\ calls = 1
    /\ text = <<>>
    /\ result = <<>>
    /\ ran = {}

UL == <<"u", "l">>
OL == <<"o", "l">>
IsUlLine(line) == UL_RE_exec(line) # NoMatch
IsOlLine(line) == UL_RE_exec(line) = NoMatch /\ OL_RE_exec(line) # NoMatch
IsBlank(line) == \A k \in 1..Len(line) : line[k] \in WhiteSpace
AllOf(src, kind) == \A k \in 1..Len(src) : src[k] = kind

\* C3: the accumulator holds items of one kind at a time: every accumulated
\* item comes from a line of the kind recorded in listType, every emitted
\* <ul> block holds only items of unordered-item lines and every emitted
\* <ol> block only items of ordered-item lines.
C3_AccumulatorOneKind ==
    /\ Len(itemSrc) = Len(listItems)
    /\ AllOf(itemSrc, listType)
    /\ Len(outSrc) = Len(out)
    /\ \A b \in 1..Len(out) :
          /\ At(out[b], 1, TagOpen(UL)) => (outSrc[b] # <<>> /\ AllOf(outSrc[b], "ul"))
          /\ At(out[b], 1, TagOpen(OL)) => (outSrc[b] # <<>> /\ AllOf(outSrc[b], "ol"))
          /\ outSrc[b] # <<>> => (At(out[b], 1, TagOpen(UL)) \/ At(out[b], 1, TagOpen(OL)))

C3_Witness ==
    /\ pc = "loop"
    /\ outSrc = << <<"ul">>, <<"ol", "ol">> >>
    /\ listType = "ul"
    /\ itemSrc = <<"ul">>

\* the open list is emitted as one closed block, after everything emitted before
C4_Flushed ==
    /\ Len(out') >= Len(out) + 1
    /\ SubSeq(out', 1, Len(out)) = out
    /\ out'[Len(out) + 1] = Wrap(TypeTag(listType), Join(listItems))

\* the accumulator then holds what the line itself adds, and nothing older
C4_Cleared ==
    /\ IsUlLine(lines[i]) => (listType' = "ul" /\ Len(listItems') = 1 /\ itemSrc' = <<"ul">>)
    /\ IsOlLine(lines[i]) => (listType' = "ol" /\ AllOf(itemSrc', "ol")
                              /\ listItems' = OlItems(OL_RE_exec(lines[i])))
    /\ NotListLine(lines[i]) => (listType' = "null" /\ listItems' = <<>>)

C4_OtherKind ==
    \/ listType = "ul" /\ IsOlLine(lines[i])
    \/ listType = "ol" /\ IsUlLine(lines[i])

\* C4 as claimed: with a non-empty accumulator, a line of the other list kind
\* or any line that is no list item flushes the accumulator before anything
\* is emitted or accumulated for that line.
C4_FlushOnAnyNonListLine ==
    [][(InLoop /\ listItems # <<>> /\ (C4_OtherKind \/ NotListLine(lines[i])))
          => (C4_Flushed /\ C4_Cleared)]_vars

\* C4 as amended: with a non-empty accumulator, a line of the other list kind
\* or a line that is neither a list item nor blank flushes the accumulator
\* before anything is emitted or accumulated for that line.
C4_FlushOnKindSwitchOrNonBlank ==
    [][(InLoop /\ listItems # <<>>
          /\ (C4_OtherKind \/ (NotListLine(lines[i]) /\ ~IsBlank(lines[i]))))
          => (C4_Flushed /\ C4_Cleared)]_vars

C4_Witness ==
    /\ pc = "loop"
    /\ lines = << <<"-", " ", "a", ".">>, <<"#", " ", "a", ".">> >>
    /\ i = 3
    /\ out = << Wrap(UL, Li(<<"a", ".">>)), Heading(1, <<"a", ".">>) >>
    /\ listItems = <<>>

\* C5: a blank line met with a non-empty accumulator changes neither the
\* output sequence nor the accumulator; met with an empty accumulator it
\* appends exactly one <br> block and changes nothing else.
C5_BlankLineSwallowedInList ==
    [][(InLoop /\ IsBlank(lines[i]))
          => /\ listItems # <<>> => (out' = out /\ listItems' = listItems /\ listType' = listType)
             /\ listItems = <<>> => (out' = Append(out, BR) /\ listItems' = <<>>
                                      /\ listType' = listType)
             /\ lines' = lines /\ text' = text /\ result' = result /\ i' = i + 1]_vars

C5_Witness ==
    /\ pc = "loop"
    /\ lines = << <<"-", " ", "a", ".">>, <<>>, <<"-", " ", "a", ".">> >>
    /\ i = 3
    /\ out = <<>>
    /\ listType = "ul"
    /\ listItems = << Li(<<"a", ".">>) >>

\* every line is an item line of the given kind or blank; the first and the last are items
OneKindLines(ls, kind) ==
    LET IsItem(l) == IF kind = "ul" THEN IsUlLine(l) ELSE IsOlLine(l)
    IN  /\ \A k \in 1..Len(ls) : IsItem(ls[k]) \/ IsBlank(ls[k])
        /\ IsItem(ls[1])
        /\ IsItem(ls[Len(ls)])

\* the items of the lines from k on: one item per item line, or, with split,
\* the items an ordered line's content is split into
RECURSIVE C6_Items(_, _, _, _)
C6_Items(ls, kind, split, k) ==
    IF k > Len(ls) THEN <<>>
    ELSE (IF IsBlank(ls[k]) THEN <<>>
          ELSE IF kind = "ul" THEN <<Li(inlineFormat(UL_RE_exec(ls[k])))>>
          ELSE IF split THEN OlItems(OL_RE_exec(ls[k]))
          ELSE <<Li(inlineFormat(OL_RE_exec(ls[k])))>>)
         \o C6_Items(ls, kind, split, k + 1)

C6_OneBlock(ls, kind, split) == Wrap(TypeTag(kind), Join(C6_Items(ls, kind, split, 1)))

\* C6 as claimed: an input made only of item lines of one kind, with blank
\* lines between them, renders as exactly one list block of that kind with
\* one item per item line, in input order.
C6_OneListBlockPerInput ==
    \A kind \in {"ul", "ol"} :
        (pc = "done" /\ text # NULL /\ text # <<>> /\ OneKindLines(SplitLines(text, 1), kind))
            => result = C6_OneBlock(SplitLines(text, 1), kind, FALSE)

\* C6 as amended: an input that is not classified as HTML and whose lines after
\* the pre-pass are only item lines of one kind, with blank lines between
\* them, renders as exactly one list block of that kind; it holds, in input
\* order, one item per unordered line and, per ordered line, the items its
\* content is split into.
C6_OneListBlockAfterPrePass ==
    \A kind \in {"ul", "ol"} :
        (pc = "done" /\ "converter" \in ran /\ OneKindLines(lines, kind))
            => result = C6_OneBlock(lines, kind, TRUE)

C6_Witness ==
    /\ pc = "done"
    /\ text = <<"-", " ", "a", ".", "\n", "\n", "-", " ", "c", " ", "2", ".", " ", "d">>
    /\ result = Wrap(UL, Li(<<"a", ".">>) \o Li(<<"c", " ", "2", ".", " ", "d">>))

C7_SwitchStep ==
    /\ (InLoop /\ listType = "ul" /\ IsOlLine(lines[i]))
           => /\ out' = Append(out, Wrap(UL, Join(listItems)))
              /\ listType' = "ol"
              /\ listItems' = OlItems(OL_RE_exec(lines[i]))
              /\ AllOf(itemSrc', "ol")
    /\ (InLoop /\ listType = "ol" /\ IsUlLine(lines[i]))
           => /\ out' = Append(out, Wrap(OL, Join(listItems)))
              /\ listType' = "ul"
              /\ listItems' = <<Li(inlineFormat(UL_RE_exec(lines[i])))>>
              /\ AllOf(itemSrc', "ul")

\* C7: when an ordered-item line follows an open unordered list, or the
\* reverse, the open list is closed as a block of its own type before the new
\* list is opened with the items of the new line only; "- a\n1. b" renders as
\* one <ul> with item a followed by one <ol> with item b.
C7_KindSwitchClosesBlock ==
    /\ [][C7_SwitchStep]_vars
    /\ []((pc = "done" /\ text = <<"-", " ", "a", "\n", "1", ".", " ", "b">>)
             => result = Wrap(UL, Li(<<"a">>)) \o Wrap(OL, Li(<<"b">>)))

C7_Witness ==
    /\ pc = "done"
    /\ text = <<"-", " ", "a", "\n", "1", ".", " ", "b">>
    /\ result = Wrap(UL, Li(<<"a">>)) \o Wrap(OL, Li(<<"b">>))
    /\ outSrc = << <<"ul">>, <<"ol">> >>

\* the list items of an inline case, one per written item
C8_Items(c) == Join([k \in 1..Len(c.items) |-> Li(c.items[k].item)])

\* C8: a single-line input "<sentence>. N. <item> M. <item> ..." renders as the
\* sentence followed by exactly one ordered list block holding the items in
\* input order; no item is emitted as a paragraph or in a block of its own.
C8_InlineListOneBlock ==
    pc = "done" =>
        \A c \in InlineCases :
            text = InlineText(c)
                => result = Paragraph(c.sentence \o <<".">>) \o Wrap(OL, C8_Items(c))

C8_Witness ==
    /\ pc = "done"
    /\ text = <<"S", "u", "m", "m", "a", "r", "y", ".", " ", "2", ".", " ",
                "S", "e", "c", "o", "n", "d", ".", " ", "1", "0", ".", " ", "x">>
    /\ result = Paragraph(<<"S", "u", "m", "m", "a", "r", "y", ".">>)
                \o Wrap(OL, Li(<<"S", "e", "c", "o", "n", "d", ".">>) \o Li(<<"x">>))

\* positions of the content at or after p where a further ordered marker starts
C9_Markers(c, p) == {q \in p..Len(c) : OlMarkerAt(c, q).ok}

\* the pieces of the content between its markers, leftmost marker first
RECURSIVE C9_Pieces(_, _)
C9_Pieces(c, p) ==
    IF C9_Markers(c, p) = {} THEN <<Sub(c, p, Len(c) + 1)>>
    ELSE LET q == CHOOSE x \in C9_Markers(c, p) : \A y \in C9_Markers(c, p) : x <= y
         IN  <<Sub(c, p, q)>> \o C9_Pieces(c, OlMarkerAt(c, q).end)

\* the pieces trimmed, the empty ones dropped, each as a list item
RECURSIVE C9_Kept(_)
C9_Kept(ps) ==
    IF ps = <<>> THEN <<>>
    ELSE (IF trim(Head(ps)) = <<>> THEN <<>> ELSE <<Li(inlineFormat(trim(Head(ps))))>>)
         \o C9_Kept(Tail(ps))

C9_Expected(c) ==
    IF C9_Markers(c, 1) = {} THEN <<Li(inlineFormat(c))>> ELSE C9_Kept(C9_Pieces(c, 1))

C9_Step ==
    (InLoop /\ IsOlLine(lines[i]))
        => listItems' = (IF listType = "ul" THEN <<>> ELSE listItems)
                            \o C9_Expected(OL_RE_exec(lines[i]))

\* C9: the content of an ordered-item line that holds further ordered markers
\* is split at every marker into items kept in order, each trimmed, the empty
\* ones dropped; a content with no further marker becomes exactly one item.
C9_InlineSplitItems == [][C9_Step]_vars

C9_Witness ==
    /\ pc = "loop"
    /\ i = 2
    /\ lines[1] = <<"1", ".", " ", "a", " ", "2", ".", " ", "a", " ", "2", ".", " ">>
    /\ listItems = <<Li(<<"a">>), Li(<<"a">>)>>

\* horizontal spaces
C10_Spaces == {" ", "\t"}

\* a period at q followed by spaces, an integer, '.' or ')' and spaces
C10_InlineAt(s, q) ==
    LET w == SkipWhile(s, q + 1, C10_Spaces)
        d == SkipWhile(s, w, Digits)
        e == SkipWhile(s, d + 1, C10_Spaces)
    IN  IF q <= Len(s) /\ s[q] = "." /\ w > q + 1 /\ d > w /\ d <= Len(s)
           /\ s[d] \in OlDelims /\ e > d + 1
        THEN [ok |-> TRUE, num |-> Sub(s, w, d), end |-> e]
        ELSE NoGroups

\* the text with only such occurrences rewritten
RECURSIVE C10_Rewrite(_, _)
C10_Rewrite(s, p) ==
    IF p > Len(s) THEN <<>>
    ELSE LET m == C10_InlineAt(s, p)
         IN  IF m.ok
             THEN Concat3(<<".", "\n">>, m.num, <<".", " ">>) \o C10_Rewrite(s, m.end)
             ELSE <<s[p]>> \o C10_Rewrite(s, p + 1)

\* C10: the pre-pass rewrites only a period followed by one or more spaces, an
\* integer, '.' or ')' and one or more spaces; every other marker, the first
\* list marker of a paragraph included, reaches the line loop as written.
C10_PrePassOnlyInline ==
    pc = "loop" => lines = SplitLines(C10_Rewrite(text, 1), 1)

\* the text with a line break put before the digit run of every inline
\* occurrence and nothing else changed
RECURSIVE C11_InsertBreaks(_, _)
C11_InsertBreaks(s, p) ==
    IF p > Len(s) THEN <<>>
    ELSE LET m == C10_InlineAt(s, p)
             w == SkipWhile(s, p + 1, C10_Spaces)
         IN  IF m.ok
             THEN Concat3(Sub(s, p, w), <<"\n">>, Sub(s, w, m.end))
                      \o C11_InsertBreaks(s, m.end)
             ELSE <<s[p]>> \o C11_InsertBreaks(s, p + 1)

\* C11: the pre-pass rewrites only inline occurrences and changes the text
\* only by inserting a line break before the digit run; the whitespace around
\* the marker, existing line breaks and blank lines and the delimiter are kept.
C11_PrePassOnlyInsertsBreak ==
    pc = "loop" => lines = SplitLines(C11_InsertBreaks(text, 1), 1)

\* the patterns of the line loop that a line matches, each taken on its own
C12_Matching(line) ==
    {k \in {"ul", "ol", "blank", "heading"} :
        \/ k = "ul" /\ UL_RE_exec(line) # NoMatch
        \/ k = "ol" /\ OL_RE_exec(line) # NoMatch
        \/ k = "blank" /\ trim(line) = <<>>
        \/ k = "heading" /\ H_RE_exec(line).ok}

\* the lines the loop sees for the modelled inputs (those of the current call
\* are among them)
C12_Lines ==
    UNION {{SplitLines(ReplaceInlineOlBreak(t, 1), 1)[k] :
               k \in 1..Len(SplitLines(ReplaceInlineOlBreak(t, 1), 1))} :
           t \in Inputs \ {NULL, <<>>}}

\* C12 as claimed: some line matches more than one of the unordered, ordered,
\* blank and heading patterns, so the order of the checks decides its block.
C12_OrderLoadBearing ==
    \E l \in C12_Lines \cup {lines[k] : k \in 1..Len(lines)} :
        Cardinality(C12_Matching(l)) > 1

\* C12 as amended: no line matches more than one of the unordered, ordered,
\* blank and heading patterns, so the order of these four checks cannot change
\* the block chosen for a line; a line that matches none is a paragraph.
C12_PatternsExclusive ==
    InLoop =>
        /\ Cardinality(C12_Matching(lines[i])) <= 1
        /\ IsUlLine(lines[i]) <=> C12_Matching(lines[i]) = {"ul"}
        /\ IsOlLine(lines[i]) <=> C12_Matching(lines[i]) = {"ol"}
        /\ IsBlank(lines[i]) <=> C12_Matching(lines[i]) = {"blank"}

C12_Witness ==
    /\ InLoop
    /\ listType = "ul"
    /\ C12_Matching(lines[i]) = {"heading"}

\* starts of the matches of  d ([^c]+) d  at or after p
C13_Starts(s, p, d) == {q \in p..Len(s) : DelimMatchEnd(s, q, d) > 0}

\* every non-overlapping span d t d, leftmost first, wrapped in the tag
RECURSIVE C13_Spans(_, _, _, _)
C13_Spans(s, p, d, name) ==
    IF C13_Starts(s, p, d) = {} THEN Sub(s, p, Len(s) + 1)
    ELSE LET q == CHOOSE x \in C13_Starts(s, p, d) : \A y \in C13_Starts(s, p, d) : x <= y
             e == DelimMatchEnd(s, q, d)
         IN  Concat3(Sub(s, p, q), Wrap(name, Sub(s, q + Len(d), e - Len(d))),
                     C13_Spans(s, e, d, name))

C13_Expected(s) == C13_Spans(C13_Spans(s, 1, <<"*", "*">>, STRONG), 1, <<"*">>, EM)

\* C13: every span **t** becomes a strong span holding t and every span *t*
\* an emphasis span holding t, for all non-overlapping matches from left to
\* right; "**bold**" and "*italic*" each render as one paragraph wrapping the span.
C13_BoldAndItalicSpans ==
    /\ (pc = "done" /\ "converter" \in ran /\ Len(lines) = 1
            /\ C12_Matching(lines[1]) = {} /\ BACKTICK \notin {lines[1][k] : k \in 1..Len(lines[1])})
        => result = Paragraph(C13_Expected(lines[1]))
    /\ (pc = "done" /\ text = <<"*", "*", "b", "o", "l", "d", "*", "*">>)
        => result = Paragraph(Wrap(STRONG, <<"b", "o", "l", "d">>))
    /\ (pc = "done" /\ text = <<"*", "i", "t", "a", "l", "i", "c", "*">>)
        => result = Paragraph(Wrap(EM, <<"i", "t", "a", "l", "i", "c">>))

C13_Witness ==
    /\ pc = "done"
    /\ text = <<"*", "*", "*", "x", "*", "*", "*">>
    /\ result = Paragraph(Wrap(EM, Wrap(STRONG, <<"x">>)))

\* how often the character c occurs in s
C14_Count(s, c) == Cardinality({k \in 1..Len(s) : s[k] = c})

\* does the literal w occur anywhere in s
C14_Has(s, w) == {p \in 1..Len(s) : At(s, p, w)} # {}

\* s is one bold span: ** t ** with t non-empty and without asterisk
C14_IsBoldSpan(s) ==
    /\ Len(s) >= 5
    /\ At(s, 1, <<"*", "*">>)
    /\ At(s, Len(s) - 1, <<"*", "*">>)
    /\ C14_Count(s, "*") = 4

\* C14: with the bold substitution first a span **x** yields a strong span, no
\* emphasis span and no leftover asterisk; with the italic substitution first
\* the same text yields something else.
C14_BoldBeforeItalic ==
    (pc = "done" /\ text # NULL /\ C14_IsBoldSpan(text))
        => /\ result = Paragraph(ReplaceCode(Wrap(STRONG, Sub(text, 3, Len(text) - 1))))
           /\ ~C14_Has(result, TagOpen(EM))
           /\ C14_Count(result, "*") = 0
           /\ Paragraph(inlineFormat_ItalicFirst(text)) # result
           /\ C14_Has(inlineFormat_ItalicFirst(text), TagOpen(EM))

C14_Witness ==
    /\ pc = "done"
    /\ text = <<"*", "*", "x", "x", "*", "*">>
    /\ result = Paragraph(Wrap(STRONG, <<"x", "x">>))

\* the content of the block a single line becomes, or NoMatch for a blank
\* line and for an ordered line with inline markers
C15_Content(line) ==
    CASE C12_Matching(line) = {} -> line
      [] C12_Matching(line) = {"ul"} -> UL_RE_exec(line)
      [] C12_Matching(line) = {"heading"} -> H_RE_exec(line).content
      [] C12_Matching(line) = {"ol"} ->
            IF C9_Markers(OL_RE_exec(line), 1) = {} THEN OL_RE_exec(line) ELSE NoMatch
      [] OTHER -> NoMatch

\* the block of a single line around the given body
C15_Block(line, body) ==
    CASE C12_Matching(line) = {"ul"} -> Wrap(UL, Li(body))
      [] C12_Matching(line) = {"ol"} -> Wrap(OL, Li(body))
      [] C12_Matching(line) = {"heading"} -> Heading(H_RE_exec(line).lvl, body)
      [] OTHER -> Paragraph(body)

\* C15: the converter never fails (every line of the loop is taken by exactly
\* one branch and the call returns a string), and a content with at most one
\* asterisk and at most one backquote is emitted unchanged, with no strong,
\* emphasis or code span made from it.
C15_UnmatchedMarkersLiteral ==
    /\ InLoop =>
          /\ Cardinality(C12_Matching(lines[i])) <= 1
          /\ \A k \in 1..Len(out) : IsString(out[k])
          /\ \A k \in 1..Len(listItems) : IsString(listItems[k])
    /\ (pc = "done" /\ "converter" \in ran) => IsString(result)
    /\ (pc = "done" /\ "converter" \in ran /\ Len(lines) = 1
            /\ C15_Content(lines[1]) # NoMatch
            /\ C14_Count(C15_Content(lines[1]), "*") <= 1
            /\ C14_Count(C15_Content(lines[1]), BACKTICK) <= 1)
        => result = C15_Block(lines[1], C15_Content(lines[1]))

C15_Witness ==
    /\ pc = "done"
    /\ text = <<"1", ".", " ", "*">>
    /\ result = Wrap(OL, Li(<<"*">>))

\* C16: the same input gives the same output in every call of a history, every
\* invocation of the converter starts from an empty output sequence and an
\* empty accumulator, and no module-level pattern keeps a match position.
C16_StatelessDeterministic ==
    /\ \A a, b \in memo : a.text = b.text => a.result = b.result
    /\ \A re \in PatternNames : lastIndex[re] = 0
    /\ (pc = "loop" /\ i = 1) => (out = <<>> /\ listItems = <<>> /\ listType = "null")
    /\ (pc = "done" /\ calls > 1 /\ prev.text = text) => result = prev.result

C16_Witness ==
    /\ pc = "done"
    /\ calls = 2
    /\ prev.text = text
    /\ text = <<"-", " ", "a", "\n", "1", ".", " ", "b">>
    /\ memo = {[text |-> text, result |-> Wrap(UL, Li(<<"a">>)) \o Wrap(OL, Li(<<"b">>))]}

\* the string with its ASCII letters in lower case
C17_Lower(s) == [k \in 1..Len(s) |-> Lower(s[k])]

\* a tag boundary: '<', an optional '/', an allowlisted name in any letter
\* case, then whitespace, '/' or '>'
C17_IsHtml(s) ==
    \E p \in 1..Len(s), n \in 1..10 :
        LET b == IF p < Len(s) /\ s[p + 1] = "/" THEN p + 2 ELSE p + 1
        IN  /\ s[p] = "<"
            /\ b + n <= Len(s)
            /\ C17_Lower(Sub(s, b, b + n)) \in TagNames
            /\ s[b + n] \in WhiteSpace \cup {"/", ">"}

\* C17: a text is classified as HTML, and returned as it is without the
\* converter, if and only if it holds a tag boundary at some position; texts
\* with only other tags, or with a name not followed by whitespace, '/' or
\* '>', go to the converter.
C17_HtmlClassification ==
    (pc = "done" /\ text # NULL /\ text # <<>>)
        => /\ C17_IsHtml(text) <=> "converter" \notin ran
           /\ C17_IsHtml(text) => result = text
           /\ text \in { <<"<", "i", "m", "g", ">">>, <<"<", "b", "o", "d", "y", ">">>,
                         <<"<", "p", "r", "e">> }
                 => result = Paragraph(text)

C17_Witness ==
    /\ pc = "done"
    /\ text = <<"<", "p", "r", "e">>
    /\ "converter" \in ran
    /\ result = Paragraph(text)

\* the number of '#' characters the line starts with
C18_Level(line) == SkipWhile(line, 1, {"#"}) - 1

\* one to six '#' at column 0, then whitespace, then content on the same line
C18_IsHeading(line) ==
    LET n == C18_Level(line)
    IN  /\ n \in 1..6
        /\ \E c \in (n + 2)..Len(line) :
              /\ \A k \in (n + 1)..(c - 1) : line[k] \in WhiteSpace
              /\ line[c] \notin LineTerminators

C18_Step ==
    InLoop =>
        /\ C18_IsHeading(lines[i])
              => /\ out' = Append(flushList(Current).out,
                                  Heading(C18_Level(lines[i]),
                                          inlineFormat(H_RE_exec(lines[i]).content)))
                 /\ listItems' = <<>>
                 /\ listType' = "null"
                 /\ At(out'[Len(out')], 1, <<"<", "h">>)
                 /\ out'[Len(out')][3] \in {"1", "2", "3", "4", "5", "6"}
        /\ (~C18_IsHeading(lines[i]) /\ Len(out') > Len(out))
              => ~At(out'[Len(out')], 1, <<"<", "h">>)

\* C18: a line is a heading exactly when it starts at column 0 with one to six
\* '#' followed by whitespace and content; a pending list is flushed before
\* the heading is emitted, the level is the number of '#' and lies in 1..6,
\* and a line with seven or more '#' is not a heading.
C18_HeadingLevels == [][C18_Step]_vars

C18_Witness ==
    /\ pc = "loop"
    /\ i = 3
    /\ lines = << <<"-", " ", "a">>, <<"#", "#", "#", "#", "#", "#", " ", "T">> >>
    /\ out = << Wrap(UL, Li(<<"a">>)), Wrap(<<"h", "6">>, <<"T">>) >>

\* a is a prefix of b
C19_IsPrefix(a, b) == Len(a) <= Len(b) /\ SubSeq(b, 1, Len(a)) = a

\* the sequence of numbers never goes down
C19_Ordered(ns) == \A k \in 1..(Len(ns) - 1) : ns[k] <= ns[k + 1]

\* C19: the output sequence is append-only and follows input order: in every
\* step of the converter the previous out is a prefix of the new one and the
\* line index goes up by one, and the blocks of out, followed by the open
\* accumulator, come from lines in non-decreasing order.
C19_AppendOnlyInOrder ==
    /\ [][pc = "loop" => (C19_IsPrefix(out, out') /\ (InLoop => i' = i + 1))]_vars
    /\ []((pc \in {"loop", "done"} /\ "converter" \in ran)
              => /\ Len(outAt) = Len(out)
                 /\ C19_Ordered(Join(outAt) \o itemAt)
                 /\ \A k \in 1..Len(outAt) : outAt[k] # <<>>)

C19_Witness ==
    /\ pc = "done"
    /\ Len(out) = 3
    /\ outAt = << <<1>>, <<2>>, <<3>> >>
    /\ outSrc = << <<>>, <<"ul">>, <<>> >>

\* the list blocks of out from block k on are the items of all from offset n
\* on, cut as outSrc says and wrapped in the tag of their kind
RECURSIVE C20_BlocksMatch(_, _)
C20_BlocksMatch(k, n) ==
    IF k > Len(out) THEN n = Len(allItems)
    ELSE IF outSrc[k] = <<>> THEN C20_BlocksMatch(k + 1, n)
    ELSE /\ n + Len(outSrc[k]) <= Len(allItems)
         /\ out[k] = Wrap(TypeTag(outSrc[k][1]),
                          Join(SubSeq(allItems, n + 1, n + Len(outSrc[k]))))
         /\ C20_BlocksMatch(k + 1, n + Len(outSrc[k]))

\* C20: when the converter returns, the accumulator is empty and every item
\* that was accumulated is in the returned output exactly once, in order,
\* inside a closed list block.
C20_FinalFlush ==
    (pc = "done" /\ "converter" \in ran)
        => /\ listItems = <<>>
           /\ listType = "null"
           /\ Len(outSrc) = Len(out)
           /\ C20_BlocksMatch(1, 0)
           /\ result = Join(out)

C20_Witness ==
    /\ pc = "done"
    /\ "converter" \in ran
    /\ Len(allItems) = 3
    /\ outSrc = << <<"ul">>, <<"ol", "ol">> >>
    /\ C20_BlocksMatch(1, 0)

\* C21: in AgentSessionsHome generateSessionTitle is requested at most once
\* for any sessionId, over every interleaving of page loads and title
\* completions, also when a page is loaded again while a title request of
\* one of its sessions is pending.
C21_TitleRequestedAtMostOnce ==
    \A id \in SessionIds : home.requested[id] <= 1

\* the title requests of the session of that id have all settled
C22_Settled(id) ==
    /\ gpt.settled[id] # "none"
    /\ \A run \in gpt.runs : \A k \in 1..Len(run.queue) : run.queue[k] # id

\* C22: in AgentGPT a session that was loaded with the title 'Loading...'
\* and with a message has, in the sessions list, once its title request has
\* settled, the generated title after a success and 'Untitled Conversation'
\* after a failure, also when the list was replaced in the meantime.  Stated
\* for one delivery of the session data, so that each session has one request.
C22_TitleSetOnceSettled ==
    gpt.filterChanges = 0
        => \A k \in 1..Len(gpt.sessions) :
              LET s == gpt.sessions[k]
              IN  (C22_Settled(s.sessionId) /\ gpt.settled[s.sessionId] # "")
                      => /\ s.title # LOADING
                         /\ s.title = IF gpt.settled[s.sessionId] = "reject" THEN UNTITLED
                                      ELSE gpt.settled[s.sessionId]

\* both wire results have arrived, once each, and every title request has settled
C23_BothArrived ==
    /\ gpt.filterChanges = 0
    /\ Len(gpt.arrivals) = 2
    /\ {gpt.arrivals[k] : k \in 1..2} = {"timezone", "sessions"}
C23_Final == C23_BothArrived /\ gpt.runs = {}

\* the sessions list that the data, the time zone and the outcomes of the
\* title requests determine: what the component holds when the time zone
\* arrives first
C23_Expected ==
    LET data == UserSessions(gpt.dateFilter)
    IN  [k \in 1..Len(data) |->
            [ProcessSession(gpt, data[k]) EXCEPT
                !.title = IF gpt.settled[data[k].sessionId] \in {"none", ""} THEN @
                          ELSE IF gpt.settled[data[k].sessionId] = "reject" THEN UNTITLED
                          ELSE gpt.settled[data[k].sessionId]]]

\* every formattedDate and formattedTime of the list is computed with the user's time zone
C23_InUserTimeZone ==
    \A k \in 1..Len(gpt.sessions) :
        /\ gpt.sessions[k].formattedDate = FormatWith(gpt.sessions[k].startTime, gpt.userTimeZone)
        /\ \A m \in 1..Len(gpt.sessions[k].messages) :
              gpt.sessions[k].messages[m].formattedTime
                  = FormatWith(gpt.sessions[k].messages[m].timestamp, gpt.userTimeZone)

\* C23: in AgentGPT, whichever of the time zone and the sessions arrives
\* first, once both have arrived every formattedDate and formattedTime of
\* the sessions list is computed with the user's time zone, and the final
\* sessions list is the same for both arrival orders.
C23_ArrivalOrderIrrelevant ==
    /\ C23_BothArrived => (gpt.userTimeZone \in UserTimeZones /\ C23_InUserTimeZone)
    /\ C23_Final => gpt.sessions = C23_Expected

\* the two parts of C23 that hold: the dates and times, and the final list
\* when the time zone is the first to arrive
C23_DatesInUserTimeZone ==
    C23_BothArrived => (gpt.userTimeZone \in UserTimeZones /\ C23_InUserTimeZone)
C23_TimeZoneFirst ==
    (C23_Final /\ gpt.arrivals[1] = "timezone") => gpt.sessions = C23_Expected

\* the opening tags the converter writes around its blocks
C24_BlockTags ==
    {TagOpen(<<"p">>), BR, TagOpen(<<"u", "l">>), TagOpen(<<"o", "l">>)}
        \cup {TagOpen(<<"h", d>>) : d \in {"1", "2", "3", "4", "5", "6"}}
C24_HasBlockTag(s) ==
    \E p \in 1..Len(s) : \E tag \in C24_BlockTags : At(s, p, tag)

\* C24: rendering the result of renderMessageContent once more returns it
\* unchanged: what the converter returns is non-empty and contains <p>, <br>,
\* <ul>, <ol> or <h1>..<h6>, so HTML_PATTERN matches it and the second call
\* returns it as it is.
C24_Idempotent ==
    /\ (pc = "done" /\ "converter" \in ran)
          => /\ result # <<>>
             /\ C24_HasBlockTag(result)
             /\ HTML_PATTERN_test(result)
    /\ (pc = "done" /\ calls > 1 /\ text = prev.result)
          => /\ result = prev.result
             /\ "converter" \notin ran

C24_Witness ==
    /\ pc = "done"
    /\ calls = 2
    /\ prev.text = <<"*", "a", "*">>
    /\ prev.result = Paragraph(Wrap(EM, <<"a">>))
    /\ text = prev.result
    /\ result = prev.result
    /\ ran = {"detector"}

\* C25: at the start of every loop iteration and at the final flush of
\* markdownToHtml, listType is null exactly when listItems is empty; an
\* ordered-item line never records the kind 'ol' without adding an item.
C25_KindIffItems ==
    /\ pc = "loop" => (listType = "null" <=> listItems = <<>>)
    /\ pc = "loop" => listType \in {"null", "ul", "ol"}
    /\ (pc = "loop" /\ i > 1 /\ OL_RE_exec(lines[i - 1]) # NoMatch)
          => (listType = "ol" /\ Len(listItems) >= 1)

C25_Witness ==
    /\ pc = "loop"
    /\ lines = << <<"1", ".", " ", " ">> >>
    /\ i = 2
    /\ listType = "ol"
    /\ listItems = <<Li(<<" ">>)>>

\* the session ids the list shows
C26_Shown == [k \in 1..Len(home.sessions) |-> home.sessions[k].sessionId]
C26_PageIds(pageNumber) ==
    [k \in 1..Len(ServerPage(pageNumber)) |-> ServerPage(pageNumber)[k].sessionId]

\* C26: in AgentSessionsHome, once no loadPage call is in flight (and none
\* has failed), currentPage and the sessions shown are those of the page
\* requested last, whatever the order in which the responses came.
C26_LatestRequestWins ==
    (home.loads = {} /\ home.issued > 0 /\ ~home.failed)
        => /\ home.currentPage = home.lastPage
           /\ C26_Shown = C26_PageIds(home.lastPage)

\* a step in which the generated title of the selected session arrives
C27_TitleArrives ==
    /\ gpt.selectedSession # NoSelection
    /\ gpt'.arrived # 0
    /\ gpt'.arrived = gpt.selectedSession.sessionId

C27_OnlyTitleChanges ==
    C27_TitleArrives
        => /\ gpt'.selectedSession.sessionId = gpt.selectedSession.sessionId
           /\ gpt'.selectedSession.title = gpt'.settled[gpt'.arrived]
           /\ gpt'.selectedSession.messages = gpt.selectedSession.messages

\* C27: in AgentGPT, when a generated title arrives for the selected
\* session, only the title of selectedSession changes; its messages, with
\* the role labels handleSessionSelect computed from the agent name, stay
\* as they were.
C27_SelectedMessagesKept == [][C27_OnlyTitleChanges]_vars

\* C28: in AgentSessionsHome currentPage is at least 1 in every state, and
\* a click on Prev or Next only ever requests a page within
\* 1..ceil(totalCount / 5) as known when the click happens.
C28_PagesInRange ==
    /\ home.currentPage >= 1
    /\ \A req \in home.loads : req.pageNumber >= 1
    /\ ~home.outOfRange

\* the parts of C28 that hold: currentPage and every requested page are at
\* least 1, and Next never asks for a page beyond the last one it knows
C28_AtLeastOne ==
    /\ home.currentPage >= 1
    /\ \A req \in home.loads : req.pageNumber >= 1
    /\ home.lastPage <= TotalPages(ServerTotal)

====
